---- MODULE Spec2Model ----
(***************************************************************************)
(* Kernel fusion (fuseKernels) and invoke renaming (renameInvoke) of       *)
(* libbcc's RSScriptGroupFusion, as a state machine over the destination   *)
(* ("merged") module: its functions and its three exported-name metadata   *)
(* lists.                                                                  *)
(*                                                                         *)
(* Modelling conventions                                                   *)
(*  - a Function* is the function's name; nullptr is the string nullptr.   *)
(*  - an llvm::Type* is a string ("void", "i32", "float", ...).            *)
(*  - an llvm::Value* is a record [kind, id]: kind "arg" (id = position in *)
(*    the enclosing function's argument list), "call" (id = position of    *)
(*    the call instruction in its block), "null" (nullptr) or "undef" (an  *)
(*    indeterminate pointer read by undefined behaviour).                  *)
(*  - a signature mask is a number; only its low eight bits are ever set   *)
(*    by the metadata, so uint32_t arithmetic is modelled on eight bits.   *)
(*  - LLVM is taken as built without its internal assertions: IRBuilder    *)
(*    emits the instruction it is asked for, well-typed or not.            *)
(*  - a call that does not return (abort, crash) ends the process: its     *)
(*    result is "abort" or "crash" and no further operation runs.          *)
(***************************************************************************)
EXTENDS Integers, Sequences, FiniteSets, TLC

VARIABLES functions, foreachNames, foreachSigs, exportFuncs, lastCall, pre, calls

vars == <<functions, foreachNames, foreachSigs, exportFuncs, lastCall, pre, calls>>

(***************************************************************************)
(* Bounds of the model.                                                    *)
(***************************************************************************)
\* longest fusion chain tried under Spec
MaxChainLen == 3
\* number of operations in a run of SpecSeq
MaxCalls == 3
\* number of entries the exported lists may already hold initially
MaxInitExports == 2

(***************************************************************************)
(* bcinfo signature bits, as named in ExpectedSignatureBits.               *)
(***************************************************************************)
MD_SIG_In == 1
MD_SIG_Out == 2
MD_SIG_X == 8
MD_SIG_Y == 16
MD_SIG_Z == 64
MD_SIG_Kernel == 32

\* The bit positions of a mask (4 is the user-data bit, 128 the context bit:
\* neither is named by the fusion code, both fall outside the expected bits).
AllBits == {1, 2, 4, 8, 16, 32, 64, 128}

RECURSIVE SumSet(_)
SumSet(S) ==
    IF S = {} THEN 0
    ELSE LET b == CHOOSE x \in S : TRUE IN b + SumSet(S \ {b})

BitsOf(m) == {b \in AllBits : (m \div b) % 2 = 1}

BitOr(a, b) == SumSet(BitsOf(a) \cup BitsOf(b))

BitAnd(a, b) == SumSet(BitsOf(a) \cap BitsOf(b))

\* a & ~b
BitAndNot(a, b) == SumSet(BitsOf(a) \ BitsOf(b))

ExpectedSignatureBits ==
    BitOr(MD_SIG_In, BitOr(MD_SIG_Out, BitOr(MD_SIG_X,
        BitOr(MD_SIG_Y, BitOr(MD_SIG_Z, MD_SIG_Kernel)))))

hasForEachSignatureIn(sig) == BitAnd(sig, MD_SIG_In) # 0

hasForEachSignatureOut(sig) == BitAnd(sig, MD_SIG_Out) # 0

hasForEachSignatureX(sig) == BitAnd(sig, MD_SIG_X) # 0

hasForEachSignatureY(sig) == BitAnd(sig, MD_SIG_Y) # 0

hasForEachSignatureZ(sig) == BitAnd(sig, MD_SIG_Z) # 0

(***************************************************************************)
(* llvm::utostr_32: the decimal digits of X, most significant first.       *)
(***************************************************************************)
DigitChar == <<"0", "1", "2", "3", "4", "5", "6", "7", "8", "9">>

RECURSIVE utostrDigits(_)
utostrDigits(X) ==
    IF X = 0 THEN <<>>
    ELSE Append(utostrDigits(X \div 10), DigitChar[(X % 10) + 1])

utostr_32(X) == IF X = 0 THEN <<"0">> ELSE utostrDigits(X)

(***************************************************************************)
(* The sources: what bcinfo::MetadataExtractor reads from each of them.    *)
(* Lists are indexed by slot, from 0.                                      *)
(***************************************************************************)
nullptr == "nullptr"

Types == {"void", "i32", "int", "float", "ptr"}

Sources ==
    [ srcA |-> [ extractOk |-> TRUE,
                 foreachName  |-> <<"kCopy", "kScaleXY", "kGen", "kSink", "kNop">>,
                 foreachCount |-> <<1, 1, 0, 1, 0>>,
                 foreachSig   |-> << MD_SIG_In + MD_SIG_Out + MD_SIG_Kernel,
                                     MD_SIG_In + MD_SIG_Out + MD_SIG_X + MD_SIG_Y + MD_SIG_Kernel,
                                     MD_SIG_Out + MD_SIG_X + MD_SIG_Kernel,
                                     MD_SIG_In + MD_SIG_Z + MD_SIG_Kernel,
                                     0 >>,
                 funcName     |-> <<"invoke1", "invoke0", "invoke2">> ],
      srcB |-> [ extractOk |-> TRUE,
                 foreachName  |-> <<"kMulti", "kCtxt", "kGone", "", "kFill">>,
                 foreachCount |-> <<2, 1, 1, 1, 0>>,
                 foreachSig   |-> << MD_SIG_In + MD_SIG_Out + MD_SIG_Kernel,
                                     MD_SIG_In + MD_SIG_Out + MD_SIG_Kernel + 128,
                                     MD_SIG_In + MD_SIG_Out + MD_SIG_Kernel,
                                     MD_SIG_In + MD_SIG_Out,
                                     MD_SIG_Out + MD_SIG_X + MD_SIG_Y + MD_SIG_Z + MD_SIG_Kernel >>,
                 funcName     |-> <<"invokeRet", "invokeGone">> ],
      srcBad |-> [ extractOk |-> FALSE,
                   foreachName  |-> <<>>,
                   foreachCount |-> <<>>,
                   foreachSig   |-> <<>>,
                   funcName     |-> <<>> ] ]

SourceIds == {"srcA", "srcB", "srcBad"}

\* a function of the module: its type, the names given to its arguments and
\* the instruction blocks built for it (none for the pre-existing functions,
\* whose bodies the fusion code never reads)
Fn(params, ret) ==
    [params |-> params, ret |-> ret,
     argNames |-> [i \in 1..Len(params) |-> ""], blocks |-> <<>>]

\* the merged module before any fusion: every kernel and invoke function of
\* the sources except kGone, the "" slot and invokeGone
InitFunctions ==
    [ kCopy    |-> Fn(<<"float">>, "float"),
      kScaleXY |-> Fn(<<"float", "i32", "i32">>, "float"),
      kGen     |-> Fn(<<"i32">>, "int"),
      kSink    |-> Fn(<<"int", "i32">>, "void"),
      kNop     |-> Fn(<<>>, "void"),
      kMulti   |-> Fn(<<"float", "float">>, "float"),
      kCtxt    |-> Fn(<<"float", "ptr">>, "float"),
      kFill    |-> Fn(<<"i32", "i32", "i32">>, "int"),
      invoke1  |-> Fn(<<"ptr">>, "void"),
      invoke0  |-> Fn(<<>>, "void"),
      invoke2  |-> Fn(<<"ptr", "i32">>, "void"),
      invokeRet |-> Fn(<<"ptr">>, "i32") ]

\* Module::getFunction
ModuleGetFunction(M, name) == IF name \in DOMAIN M THEN name ELSE nullptr

(***************************************************************************)
(* getFunction: the function behind a chain member, and its signature.     *)
(* sigSet tells whether *signature was written before the return.          *)
(***************************************************************************)
getFunction(M, source, slot) ==
    LET metadata == Sources[source]
        functionName == metadata.foreachName[slot + 1]
    IN  IF functionName = ""
        THEN [function |-> nullptr, sigSet |-> FALSE, signature |-> 0]
        ELSE IF metadata.foreachCount[slot + 1] > 1
        THEN [function |-> nullptr, sigSet |-> FALSE, signature |-> 0]
        ELSE [function |-> ModuleGetFunction(M, functionName),
              sigSet |-> TRUE,
              signature |-> metadata.foreachSig[slot + 1]]

(***************************************************************************)
(* getFusedFuncSig.  The loop state is [retSig, firstSignature,            *)
(* signature]; a chain member is <<source, slot>>.                         *)
(***************************************************************************)
SigInit == [retSig |-> 0, firstSignature |-> 0, signature |-> 0]

\* the iteration with "retSig = signature" written for "retSig |= signature"
SigLoopBody_Assign(st, member) ==
    LET metadata == Sources[member[1]]
        slot == member[2]
        signature == metadata.foreachSig[slot + 1]
    IN  IF metadata.foreachCount[slot + 1] > 1
        THEN [err |-> -1, st |-> st]
        ELSE IF BitAndNot(signature, ExpectedSignatureBits) # 0
        THEN [err |-> -1, st |-> [st EXCEPT !.signature = signature]]
        ELSE [err |-> 0,
              st |-> [retSig |-> signature,
                      firstSignature |-> IF st.firstSignature = 0
                                         THEN signature
                                         ELSE st.firstSignature,
                      signature |-> signature]]

\* the iteration without its test of the input count
SigLoopBody_NoCountCheck(st, member) ==
    LET metadata == Sources[member[1]]
        slot == member[2]
        signature == metadata.foreachSig[slot + 1]
    IN  IF BitAndNot(signature, ExpectedSignatureBits) # 0
        THEN [err |-> -1, st |-> [st EXCEPT !.signature = signature]]
        ELSE [err |-> 0,
              st |-> [retSig |-> BitOr(st.retSig, signature),
                      firstSignature |-> IF st.firstSignature = 0
                                         THEN signature
                                         ELSE st.firstSignature,
                      signature |-> signature]]

\* one iteration of the loop: err = -1 when the iteration returns -1
SigLoopBody(st, member) ==
    LET metadata == Sources[member[1]]
        slot == member[2]
        signature == metadata.foreachSig[slot + 1]
    IN  IF metadata.foreachCount[slot + 1] > 1
        THEN [err |-> -1, st |-> st]
        ELSE IF BitAndNot(signature, ExpectedSignatureBits) # 0
        THEN [err |-> -1, st |-> [st EXCEPT !.signature = signature]]
        ELSE [err |-> 0,
              st |-> [retSig |-> BitOr(st.retSig, signature),
                      firstSignature |-> IF st.firstSignature = 0
                                         THEN signature
                                         ELSE st.firstSignature,
                      signature |-> signature]]

\* the statements after the loop with firstSignature tested for both bits
SigFinish_OutFromFirst(st) ==
    LET r1 == IF ~hasForEachSignatureIn(st.firstSignature)
              THEN BitAndNot(st.retSig, MD_SIG_In)
              ELSE st.retSig
    IN  IF ~hasForEachSignatureOut(st.firstSignature)
        THEN BitAndNot(r1, MD_SIG_Out)
        ELSE r1

\* the two statements after the loop
SigFinish(st) ==
    LET r1 == IF ~hasForEachSignatureIn(st.firstSignature)
              THEN BitAndNot(st.retSig, MD_SIG_In)
              ELSE st.retSig
    IN  IF ~hasForEachSignatureOut(st.signature)
        THEN BitAndNot(r1, MD_SIG_Out)
        ELSE r1

RECURSIVE SigLoop(_, _, _)
SigLoop(chain, i, st) ==
    IF i > Len(chain)
    THEN [error |-> 0, retSig |-> SigFinish(st)]
    ELSE LET it == SigLoopBody(st, chain[i])
         IN  IF it.err < 0
             THEN [error |-> -1, retSig |-> it.st.retSig]
             ELSE SigLoop(chain, i + 1, it.st)

getFusedFuncSig(chain) == SigLoop(chain, 1, SigInit)

(***************************************************************************)
(* getFusedFuncType.  The set of its possible outcomes:                    *)
(*   status "null"  - returns nullptr (signature negotiation failed)       *)
(*   status "type"  - returns the function type [params, ret]              *)
(*   status "abort" - a bccAssert failed in a build that keeps assertions  *)
(*   status "crash" - a null or past-the-end dereference faulted           *)
(* A build that compiles bccAssert away falls through to the dereference;  *)
(* reading through a null function pointer, or reading the type of a       *)
(* missing first argument (arg_begin() of a function without arguments),   *)
(* is undefined: it faults or yields any type.                             *)
(***************************************************************************)
FusedOutcome(status, signature, params, ret) ==
    [status |-> status, signature |-> signature, params |-> params, ret |-> ret]

\* what a read through a null or past-the-end pointer may yield when a type
\* is read: a fault, or any type
UBType == Types \cup {"crash"}

\* the types firstF->arg_begin()->getType() may yield
FirstArgTypes(M, firstF) ==
    IF firstF = nullptr THEN UBType
    ELSE IF M[firstF].params = <<>> THEN UBType
    ELSE {M[firstF].params[1]}

\* the types lastF->getReturnType() may yield
LastRetTypes(M, lastF) ==
    IF lastF = nullptr THEN UBType ELSE {M[lastF].ret}

CoordTys(signature) ==
    (IF hasForEachSignatureX(signature) THEN <<"i32">> ELSE <<>>)
    \o (IF hasForEachSignatureY(signature) THEN <<"i32">> ELSE <<>>)
    \o (IF hasForEachSignatureZ(signature) THEN <<"i32">> ELSE <<>>)

getFusedFuncType(M, chain) ==
    LET sig == getFusedFuncSig(chain)
        signature == sig.retSig
        firstF == getFunction(M, chain[1][1], chain[1][2]).function
        lastF == getFunction(M, chain[Len(chain)][1], chain[Len(chain)][2]).function
        inTys == IF hasForEachSignatureIn(signature)
                 THEN FirstArgTypes(M, firstF)
                 ELSE {"none"}
    IN  IF sig.error < 0
        THEN {FusedOutcome("null", signature, <<>>, "void")}
        ELSE (IF firstF = nullptr \/ lastF = nullptr
              THEN {FusedOutcome("abort", signature, <<>>, "void")}
              ELSE {})
             \cup
             { IF ty = "crash" \/ rt = "crash"
               THEN FusedOutcome("crash", signature, <<>>, "void")
               ELSE FusedOutcome("type", signature,
                                 (IF ty = "none" THEN <<>> ELSE <<ty>>)
                                    \o CoordTys(signature),
                                 rt)
               : ty \in inTys, rt \in LastRetTypes(M, lastF) }

(***************************************************************************)
(* Values and instructions.                                                *)
(***************************************************************************)
Arg(i) == [kind |-> "arg", id |-> i]

CallResult(i) == [kind |-> "call", id |-> i]

NullValue == [kind |-> "null", id |-> 0]

UndefValue == [kind |-> "undef", id |-> 0]

CreateCall(callee, args) == [op |-> "call", callee |-> callee, args |-> args]

CreateRet(v) == [op |-> "ret", callee |-> "", args |-> <<v>>]

CreateRetVoid == [op |-> "retvoid", callee |-> "", args |-> <<>>]

(***************************************************************************)
(* fuseKernels, lines 197-221: the fused function's arguments, taken in    *)
(* order from its argument list according to the combined signature.       *)
(***************************************************************************)
B2N(b) == IF b THEN 1 ELSE 0

FusedArgs(signature) ==
    LET nIn == B2N(hasForEachSignatureIn(signature))
        nX == B2N(hasForEachSignatureX(signature))
        nY == B2N(hasForEachSignatureY(signature))
    IN  [dataElement |-> IF hasForEachSignatureIn(signature)
                         THEN Arg(1) ELSE NullValue,
         X |-> IF hasForEachSignatureX(signature)
               THEN Arg(nIn + 1) ELSE NullValue,
         Y |-> IF hasForEachSignatureY(signature)
               THEN Arg(nIn + nX + 1) ELSE NullValue,
         Z |-> IF hasForEachSignatureZ(signature)
               THEN Arg(nIn + nX + nY + 1) ELSE NullValue,
         names |-> (IF hasForEachSignatureIn(signature) THEN <<"DataIn">> ELSE <<>>)
                   \o (IF hasForEachSignatureX(signature) THEN <<"x">> ELSE <<>>)
                   \o (IF hasForEachSignatureY(signature) THEN <<"y">> ELSE <<>>)
                   \o (IF hasForEachSignatureZ(signature) THEN <<"z">> ELSE <<>>)]

\* the arguments with X pushed again where Y belongs
CallArgs_XForY(dataElement, fa, memberSig) ==
    (IF dataElement # NullValue THEN <<dataElement>> ELSE <<>>)
    \o (IF hasForEachSignatureX(memberSig) THEN <<fa.X>> ELSE <<>>)
    \o (IF hasForEachSignatureY(memberSig) THEN <<fa.X>> ELSE <<>>)
    \o (IF hasForEachSignatureZ(memberSig) THEN <<fa.Z>> ELSE <<>>)

\* lines 234-251: the arguments of the call to one member, whose own
\* signature is memberSig
CallArgs(dataElement, fa, memberSig) ==
    (IF dataElement # NullValue THEN <<dataElement>> ELSE <<>>)
    \o (IF hasForEachSignatureX(memberSig) THEN <<fa.X>> ELSE <<>>)
    \o (IF hasForEachSignatureY(memberSig) THEN <<fa.Y>> ELSE <<>>)
    \o (IF hasForEachSignatureZ(memberSig) THEN <<fa.Z>> ELSE <<>>)

\* lines 223-254: the loop over the chain; ok = FALSE when it returns false
RECURSIVE BuildCalls(_, _, _, _, _, _)
BuildCalls(M, chain, i, dataElement, instrs, fa) ==
    IF i > Len(chain)
    THEN [ok |-> TRUE, instrs |-> instrs, dataElement |-> dataElement]
    ELSE LET g == getFunction(M, chain[i][1], chain[i][2])
         IN  IF g.function = nullptr
             THEN [ok |-> FALSE, instrs |-> instrs, dataElement |-> dataElement]
             ELSE BuildCalls(M, chain, i + 1,
                             CallResult(Len(instrs) + 1),
                             Append(instrs,
                                    CreateCall(g.function,
                                               CallArgs(dataElement, fa, g.signature))),
                             fa)

\* lines 256-260
Terminator(retTy, dataElement) ==
    IF retTy = "void" THEN CreateRetVoid ELSE CreateRet(dataElement)

\* Module::getOrInsertFunction for a name the module does not hold yet,
\* followed by BasicBlock::Create and the naming of the arguments
InsertFunction(M, name, params, ret, argNames, block) ==
    [n \in DOMAIN M \cup {name} |->
        IF n = name
        THEN [params |-> params, ret |-> ret, argNames |-> argNames,
              blocks |-> <<block>>]
        ELSE M[n]]

\* lines 262-274: the two exported lists after registration
RegisterNames(names, fusedName) == Append(names, fusedName)

\* registration that leaves out an empty signature
RegisterSigs_SkipEmpty(sigs, signature) ==
    IF signature = 0 THEN sigs ELSE Append(sigs, utostr_32(signature))

RegisterSigs(sigs, signature) == Append(sigs, utostr_32(signature))

Snapshot ==
    [functions |-> functions, foreachNames |-> foreachNames,
     foreachSigs |-> foreachSigs, exportFuncs |-> exportFuncs]

Call(op, chain, source, slot, name, result, signature) ==
    [op |-> op, chain |-> chain, source |-> source, slot |-> slot,
     name |-> name, result |-> result, signature |-> signature]

(***************************************************************************)
(* fuseKernels(Context, sources, slots, fusedName, mergedModule).          *)
(***************************************************************************)
fuseKernels(chain, fusedName) ==
    /\ pre' = Snapshot
    /\ calls' = calls + 1
    /\ UNCHANGED exportFuncs
    /\ \E o \in getFusedFuncType(functions, chain) :
         IF o.status = "null"
         THEN /\ lastCall' = Call("fuseKernels", chain, "", 0, fusedName,
                                  "false", o.signature)
              /\ UNCHANGED <<functions, foreachNames, foreachSigs>>
         ELSE IF o.status # "type"
         THEN /\ lastCall' = Call("fuseKernels", chain, "", 0, fusedName,
                                  o.status, o.signature)
              /\ UNCHANGED <<functions, foreachNames, foreachSigs>>
         ELSE LET fa == FusedArgs(o.signature)
                  M1 == InsertFunction(functions, fusedName, o.params, o.ret,
                                       fa.names, <<>>)
                  b == BuildCalls(M1, chain, 1, fa.dataElement, <<>>, fa)
              IN  IF ~b.ok
                  THEN /\ functions' = InsertFunction(functions, fusedName,
                                           o.params, o.ret, fa.names, b.instrs)
                       /\ lastCall' = Call("fuseKernels", chain, "", 0,
                                           fusedName, "false", o.signature)
                       /\ UNCHANGED <<foreachNames, foreachSigs>>
                  ELSE /\ functions' = InsertFunction(functions, fusedName,
                                           o.params, o.ret, fa.names,
                                           Append(b.instrs,
                                                  Terminator(o.ret, b.dataElement)))
                       /\ foreachNames' = RegisterNames(foreachNames, fusedName)
                       /\ foreachSigs' = RegisterSigs(foreachSigs, o.signature)
                       /\ lastCall' = Call("fuseKernels", chain, "", 0,
                                           fusedName, "true", o.signature)

(***************************************************************************)
(* getInvokeFunction.  Module::materialize changes nothing that is         *)
(* modelled.                                                               *)
(***************************************************************************)
getInvokeFunction(M, source, slot) ==
    LET metadata == Sources[source]
    IN  IF ~metadata.extractOk
        THEN nullptr
        ELSE ModuleGetFunction(M, metadata.funcName[slot + 1])

\* lines 282-286: the parameter types and return type read from F; reading
\* them through a null F is undefined: a fault ("crash"), or anything
InvokeShapes(M, F) ==
    IF F = nullptr
    THEN {[status |-> "crash", params |-> <<>>, ret |-> "void"]}
         \cup {[status |-> "read", params |-> ps, ret |-> r] :
                 ps \in {<<>>} \cup {<<t>> : t \in Types \ {"void"}},
                 r \in Types}
    ELSE {[status |-> "read", params |-> M[F].params, ret |-> M[F].ret]}

\* lines 300-301: arg1 = argIter++; past the end of an empty argument list
\* the pointer is indeterminate, and using it may fault
FirstArgValues(params) ==
    IF params = <<>> THEN {UndefValue, [kind |-> "crash", id |-> 0]}
    ELSE {Arg(1)}

\* lines 302-304: the trampoline's block
InvokeBlock(F, arg1) == <<CreateCall(F, <<arg1>>), CreateRetVoid>>

(***************************************************************************)
(* renameInvoke(Context, source, slot, newName, module).                   *)
(***************************************************************************)
renameInvoke(source, slot, newName) ==
    /\ pre' = Snapshot
    /\ calls' = calls + 1
    /\ UNCHANGED <<foreachNames, foreachSigs>>
    /\ LET F == getInvokeFunction(functions, source, slot)
       IN  \E sh \in InvokeShapes(functions, F) :
           \E arg1 \in FirstArgValues(sh.params) :
             IF sh.status = "crash" \/ arg1.kind = "crash"
             THEN /\ lastCall' = Call("renameInvoke", <<>>, source, slot,
                                      newName, "crash", 0)
                  /\ UNCHANGED <<functions, exportFuncs>>
             ELSE /\ functions' = InsertFunction(functions, newName, sh.params,
                                      sh.ret, [i \in 1..Len(sh.params) |-> ""],
                                      InvokeBlock(F, arg1))
                  /\ exportFuncs' = Append(exportFuncs, newName)
                  /\ lastCall' = Call("renameInvoke", <<>>, source, slot,
                                      newName, "true", 0)

(***************************************************************************)
(* The inputs.  A slot is an index into the source's exported list (an     *)
(* out-of-range slot is a programming error); fusion is only asked of      *)
(* sources whose metadata extracts; the caller names each function it      *)
(* asks for with a name the module does not hold yet.                      *)
(***************************************************************************)
Members ==
    {m \in SourceIds \X (0..4) :
        Sources[m[1]].extractOk /\ m[2] < Len(Sources[m[1]].foreachName)}

RECURSIVE ChainsOfLen(_)
ChainsOfLen(n) ==
    IF n = 0 THEN {<<>>}
    ELSE {Append(c, m) : c \in ChainsOfLen(n - 1), m \in Members}

Chains == UNION {ChainsOfLen(n) : n \in 1..MaxChainLen}

\* the chains tried in sequences of calls: a single kernel; a producer and
\* a consumer; a multi-input member; an unresolved middle member; a first
\* member with an empty mask; a single kernel with an empty mask
SeqChains ==
    { << <<"srcA", 0>> >>,
      << <<"srcA", 2>>, <<"srcA", 3>> >>,
      << <<"srcA", 0>>, <<"srcB", 0>> >>,
      << <<"srcA", 0>>, <<"srcB", 2>>, <<"srcA", 1>> >>,
      << <<"srcA", 4>>, <<"srcA", 0>> >>,
      << <<"srcA", 4>> >> }

InvokeSlots ==
    {m \in SourceIds \X (0..2) :
        ~Sources[m[1]].extractOk \/ m[2] < Len(Sources[m[1]].funcName)}

\* the invoke functions tried in sequences: one argument; none
SeqInvokeSlots == {<<"srcA", 0>>, <<"srcA", 1>>}

\* the name the caller gives to the function of its n-th request
NamePool == <<"gen1", "gen2", "gen3", "gen4", "gen5", "gen6">>

Alive == lastCall.result \in {"none", "true", "false"}

Min(a, b) == IF a < b THEN a ELSE b

Init ==
    /\ functions = InitFunctions
    /\ \E n \in 0..MaxInitExports :
         /\ foreachNames = SubSeq(Sources.srcA.foreachName, 1, n)
         /\ foreachSigs = [i \in 1..n |-> utostr_32(Sources.srcA.foreachSig[i])]
         /\ exportFuncs = SubSeq(Sources.srcA.funcName, 1, Min(n, 3))
    /\ lastCall = Call("none", <<>>, "", 0, "", "none", 0)
    /\ pre = Snapshot
    /\ calls = 0

\* one operation, on any input
Fuse ==
    /\ calls = 0
    /\ NamePool[1] \notin DOMAIN functions
    /\ \E chain \in Chains : fuseKernels(chain, NamePool[1])

Rename ==
    /\ calls = 0
    /\ NamePool[1] \notin DOMAIN functions
    /\ \E m \in InvokeSlots : renameInvoke(m[1], m[2], NamePool[1])

Next == Fuse \/ Rename

Spec == Init /\ [][Next]_vars

\* sequences of operations of one process
SeqFuse ==
    /\ calls < MaxCalls
    /\ Alive
    /\ NamePool[calls + 1] \notin DOMAIN functions
    /\ \E chain \in SeqChains : fuseKernels(chain, NamePool[calls + 1])

SeqRename ==
    /\ calls < MaxCalls
    /\ Alive
    /\ NamePool[calls + 1] \notin DOMAIN functions
    /\ \E m \in SeqInvokeSlots : renameInvoke(m[1], m[2], NamePool[calls + 1])

NextSeq == SeqFuse \/ SeqRename

SpecSeq == Init /\ [][NextSeq]_vars

(***************************************************************************)
(* Vocabulary of the properties, stated without the operators above.       *)
(***************************************************************************)
HasBit(m, b) == (m \div b) % 2 = 1

SigOf(m) == Sources[m[1]].foreachSig[m[2] + 1]

CountOf(m) == Sources[m[1]].foreachCount[m[2] + 1]

NameOf(m) == Sources[m[1]].foreachName[m[2] + 1]

Declares(m, b) == HasBit(SigOf(m), b)

SupportedBitSet == {MD_SIG_In, MD_SIG_Out, MD_SIG_X, MD_SIG_Y, MD_SIG_Z, MD_SIG_Kernel}

Supported(m) ==
    /\ CountOf(m) <= 1
    /\ \A b \in AllBits : Declares(m, b) => b \in SupportedBitSet

Negotiable(chain) == \A i \in 1..Len(chain) : Supported(chain[i])

\* resolvable in the module as it was when the operation began
Resolvable(m) == NameOf(m) # "" /\ NameOf(m) \in DOMAIN pre.functions

DigitVal(c) == CHOOSE d \in 0..9 : DigitChar[d + 1] = c

RECURSIVE ParseDec(_)
ParseDec(str) ==
    IF str = <<>> THEN 0
    ELSE 10 * ParseDec(SubSeq(str, 1, Len(str) - 1)) + DigitVal(str[Len(str)])

\* a decimal numeral: at least one digit, no leading zero unless it is "0"
IsDecimal(str) ==
    /\ Len(str) >= 1
    /\ \A i \in 1..Len(str) : \E d \in 0..9 : DigitChar[d + 1] = str[i]
    /\ (Len(str) > 1 => str[1] # "0")

Fused == lastCall.op = "fuseKernels"

FusedOk == Fused /\ lastCall.result = "true"

Renamed == lastCall.op = "renameInvoke"

FirstOf(chain) == chain[1]

LastOf(chain) == chain[Len(chain)]

\* the signature last registered in "#rs_export_foreach"
Registered == ParseDec(foreachSigs[Len(foreachSigs)])

ModuleUntouched ==
    /\ functions = pre.functions
    /\ foreachNames = pre.foreachNames
    /\ foreachSigs = pre.foreachSigs
    /\ exportFuncs = pre.exportFuncs

\* a block that does not end in a return
Unterminated(block) ==
    block = <<>> \/ block[Len(block)].op \notin {"ret", "retvoid"}

(***************************************************************************)
(* C1.  For a chain whose members all have at most one input and only      *)
(* supported bits, the combined signature has HasInput exactly when the    *)
(* first member declares HasInput, also when the first member's mask is 0. *)
(* The code takes "no first signature seen yet" to be firstSignature == 0, *)
(* so a first member with mask 0 hands the role of first to the next one.  *)
(***************************************************************************)
C1_InputFromFirst ==
    (Fused /\ Negotiable(lastCall.chain)) =>
        /\ HasBit(lastCall.signature, MD_SIG_In)
              <=> Declares(FirstOf(lastCall.chain), MD_SIG_In)
        /\ lastCall.result = "true" =>
              (HasBit(Registered, MD_SIG_In)
                  <=> Declares(FirstOf(lastCall.chain), MD_SIG_In))

(***************************************************************************)
(* C2.  For a chain that passes signature negotiation, the combined        *)
(* signature (as computed, and as registered on success) has HasOutput     *)
(* exactly when the last member declares HasOutput.                        *)
(***************************************************************************)
C2_OutputFromLast ==
    (Fused /\ Negotiable(lastCall.chain)) =>
        /\ HasBit(lastCall.signature, MD_SIG_Out)
              <=> Declares(LastOf(lastCall.chain), MD_SIG_Out)
        /\ lastCall.result = "true" =>
              (HasBit(Registered, MD_SIG_Out)
                  <=> Declares(LastOf(lastCall.chain), MD_SIG_Out))

\* a successful fusion in which a member before the last declares HasOutput
\* and the last does not
C2_Witness ==
    /\ FusedOk
    /\ Len(lastCall.chain) >= 2
    /\ \E i \in 1..(Len(lastCall.chain) - 1) : Declares(lastCall.chain[i], MD_SIG_Out)
    /\ ~Declares(LastOf(lastCall.chain), MD_SIG_Out)
    /\ ~HasBit(Registered, MD_SIG_Out)

(***************************************************************************)
(* C3.  For a chain that passes signature negotiation, each of UsesX,      *)
(* UsesY, UsesZ and IsKernel is in the combined signature exactly when     *)
(* some member declares it, and the combined signature has no bit outside  *)
(* the six supported ones.                                                 *)
(***************************************************************************)
C3_CoordinatesUnion ==
    (Fused /\ Negotiable(lastCall.chain)) =>
        /\ \A b \in {MD_SIG_X, MD_SIG_Y, MD_SIG_Z, MD_SIG_Kernel} :
              /\ HasBit(lastCall.signature, b)
                    <=> \E i \in 1..Len(lastCall.chain) : Declares(lastCall.chain[i], b)
              /\ lastCall.result = "true" =>
                    (HasBit(Registered, b)
                        <=> \E i \in 1..Len(lastCall.chain) :
                               Declares(lastCall.chain[i], b))
        /\ \A b \in AllBits \ SupportedBitSet :
              /\ ~HasBit(lastCall.signature, b)
              /\ lastCall.result = "true" => ~HasBit(Registered, b)

\* a successful fusion of members that disagree on a coordinate: the first
\* declares UsesY and not UsesZ, the last UsesZ and not UsesY
C3_Witness ==
    /\ FusedOk
    /\ Len(lastCall.chain) >= 2
    /\ Declares(FirstOf(lastCall.chain), MD_SIG_Y)
    /\ ~Declares(FirstOf(lastCall.chain), MD_SIG_Z)
    /\ Declares(LastOf(lastCall.chain), MD_SIG_Z)
    /\ ~Declares(LastOf(lastCall.chain), MD_SIG_Y)
    /\ HasBit(Registered, MD_SIG_Y) /\ HasBit(Registered, MD_SIG_Z)

(***************************************************************************)
(* C4.  If a member at any position has more than one input, or a mask bit *)
(* outside the supported ones, fuseKernels returns false and leaves the    *)
(* module as it was: no function created, no entry added to either list.   *)
(***************************************************************************)
C4_UnsupportedFailsClosed ==
    (Fused /\ ~Negotiable(lastCall.chain)) =>
        /\ lastCall.result = "false"
        /\ ModuleUntouched
        /\ lastCall.name \notin DOMAIN functions

\* a refused chain whose first member is fine and resolvable and whose
\* offending member comes later
C4_Witness ==
    /\ Fused
    /\ Len(lastCall.chain) >= 2
    /\ Supported(FirstOf(lastCall.chain))
    /\ Resolvable(FirstOf(lastCall.chain))
    /\ CountOf(LastOf(lastCall.chain)) > 1
    /\ lastCall.result = "false"

(***************************************************************************)
(* C5.  If the function of any member (first, middle or last) cannot be    *)
(* resolved in the module, fuseKernels returns false and commits nothing:  *)
(* no function named fusedName, no block left without a terminator, no new *)
(* export entries.  The code resolves the middle members only after it has *)
(* inserted the fused function and its entry block, and guards the first   *)
(* and last by assertions only.                                            *)
(***************************************************************************)
C5_UnresolvedCommitsNothing ==
    (Fused /\ \E i \in 1..Len(lastCall.chain) : ~Resolvable(lastCall.chain[i])) =>
        /\ lastCall.result = "false"
        /\ lastCall.name \notin DOMAIN functions
        /\ \A n \in DOMAIN functions :
              \A k \in 1..Len(functions[n].blocks) :
                 ~Unterminated(functions[n].blocks[k])
        /\ foreachNames = pre.foreachNames
        /\ foreachSigs = pre.foreachSigs

(***************************************************************************)
(* C6.  In the body built by a successful fuseKernels there is one call    *)
(* per member, in chain order, and the call to a member passes the current *)
(* value (the fused input for the first member, the previous call's result *)
(* after that) exactly when that member declares HasInput, followed by x,  *)
(* y, z for the coordinate bits that member declares.  The code passes the *)
(* current value whenever there is one, whatever the member declares.      *)
(***************************************************************************)
ArgNamed(f, n) ==
    IF \E k \in 1..Len(f.argNames) : f.argNames[k] = n
    THEN Arg(CHOOSE k \in 1..Len(f.argNames) : f.argNames[k] = n)
    ELSE NullValue

ClaimedArgs(f, chain, i) ==
    (IF Declares(chain[i], MD_SIG_In)
     THEN <<IF i = 1 THEN ArgNamed(f, "DataIn") ELSE CallResult(i - 1)>>
     ELSE <<>>)
    \o (IF Declares(chain[i], MD_SIG_X) THEN <<ArgNamed(f, "x")>> ELSE <<>>)
    \o (IF Declares(chain[i], MD_SIG_Y) THEN <<ArgNamed(f, "y")>> ELSE <<>>)
    \o (IF Declares(chain[i], MD_SIG_Z) THEN <<ArgNamed(f, "z")>> ELSE <<>>)

C6_CallArgumentsPerMember ==
    FusedOk =>
        LET f == functions[lastCall.name]
            block == f.blocks[1]
            chain == lastCall.chain
        IN  /\ Len(f.blocks) = 1
            /\ Len(block) = Len(chain) + 1
            /\ \A i \in 1..Len(chain) :
                  /\ block[i].op = "call"
                  /\ block[i].callee = NameOf(chain[i])
                  /\ block[i].args = ClaimedArgs(f, chain, i)

(***************************************************************************)
(* C7.  In any sequence of operations the two exported kernel lists keep   *)
(* equal length; a successful fuseKernels appends exactly one entry to     *)
(* each, fusedName and the decimal numeral of the chain's combined         *)
(* signature; a fuseKernels that does not succeed, and renameInvoke,       *)
(* append to neither.                                                      *)
(***************************************************************************)
C7_ExportListsLockStep ==
    /\ Len(foreachNames) = Len(foreachSigs)
    /\ FusedOk =>
          /\ foreachNames = Append(pre.foreachNames, lastCall.name)
          /\ Len(foreachSigs) = Len(pre.foreachSigs) + 1
          /\ SubSeq(foreachSigs, 1, Len(pre.foreachSigs)) = pre.foreachSigs
          /\ IsDecimal(foreachSigs[Len(foreachSigs)])
          /\ Registered = getFusedFuncSig(lastCall.chain).retSig
    /\ (lastCall.op # "none" /\ ~FusedOk) =>
          /\ foreachNames = pre.foreachNames
          /\ foreachSigs = pre.foreachSigs

\* the third operation of a run is a successful fusion of two members whose
\* combined signature is the signature of neither, after an earlier fusion
\* that failed half-way and one that succeeded
C7_Witness ==
    /\ calls = 3
    /\ FusedOk
    /\ Len(lastCall.chain) = 2
    /\ \A i \in 1..2 : SigOf(lastCall.chain[i]) # Registered
    /\ \E n \in DOMAIN functions :
          functions[n].blocks # <<>> /\ Unterminated(functions[n].blocks[1])
    /\ \E k \in 1..Len(pre.foreachNames) : pre.foreachNames[k] \in DOMAIN pre.functions
                                          /\ pre.functions[pre.foreachNames[k]].blocks # <<>>

(***************************************************************************)
(* C8.  Fusing a chain of the single resolvable, supported kernel K         *)
(* succeeds; the registered signature is K's mask; the fused parameters    *)
(* are [input if HasInput, x if UsesX, y if UsesY, z if UsesZ] with the    *)
(* input type of K's first parameter; the return type is K's; the body is  *)
(* one call to K forwarding every fused parameter in order, then a return  *)
(* of the call's result, or a void return when K returns void.             *)
(***************************************************************************)
SingleParams(m, K) ==
    (IF Declares(m, MD_SIG_In) THEN <<K.params[1]>> ELSE <<>>)
    \o (IF Declares(m, MD_SIG_X) THEN <<"i32">> ELSE <<>>)
    \o (IF Declares(m, MD_SIG_Y) THEN <<"i32">> ELSE <<>>)
    \o (IF Declares(m, MD_SIG_Z) THEN <<"i32">> ELSE <<>>)

SingleNames(m) ==
    (IF Declares(m, MD_SIG_In) THEN <<"DataIn">> ELSE <<>>)
    \o (IF Declares(m, MD_SIG_X) THEN <<"x">> ELSE <<>>)
    \o (IF Declares(m, MD_SIG_Y) THEN <<"y">> ELSE <<>>)
    \o (IF Declares(m, MD_SIG_Z) THEN <<"z">> ELSE <<>>)

C8_SingleKernelForwarding ==
    (Fused /\ Len(lastCall.chain) = 1
           /\ Supported(lastCall.chain[1]) /\ Resolvable(lastCall.chain[1])) =>
        LET m == lastCall.chain[1]
            K == pre.functions[NameOf(m)]
        IN  /\ lastCall.result = "true"
            /\ foreachNames = Append(pre.foreachNames, lastCall.name)
            /\ foreachSigs = Append(pre.foreachSigs, foreachSigs[Len(foreachSigs)])
            /\ IsDecimal(foreachSigs[Len(foreachSigs)])
            /\ Registered = SigOf(m)
            /\ lastCall.name \in DOMAIN functions
            /\ LET f == functions[lastCall.name]
               IN  /\ f.params = SingleParams(m, K)
                   /\ f.argNames = SingleNames(m)
                   /\ f.ret = K.ret
                   /\ f.blocks =
                        << << [op |-> "call", callee |-> NameOf(m),
                               args |-> [i \in 1..Len(f.params) |-> Arg(i)]],
                              IF K.ret = "void"
                              THEN [op |-> "retvoid", callee |-> "", args |-> <<>>]
                              ELSE [op |-> "ret", callee |-> "",
                                    args |-> <<CallResult(1)>>] >> >>
            /\ \A n \in DOMAIN pre.functions : functions[n] = pre.functions[n]

\* a single kernel that takes an input and two coordinates and returns a
\* value has been fused
C8_Witness ==
    /\ FusedOk
    /\ Len(lastCall.chain) = 1
    /\ Declares(lastCall.chain[1], MD_SIG_In)
    /\ Declares(lastCall.chain[1], MD_SIG_X)
    /\ Declares(lastCall.chain[1], MD_SIG_Y)
    /\ functions[lastCall.name].ret # "void"
    /\ Len(functions[lastCall.name].blocks[1]) = 2

(***************************************************************************)
(* C9.  renameInvoke on an exported function F with N parameters (N = 0,   *)
(* 1 or more; void or non-void) creates newName with F's parameter and     *)
(* return types, a body that calls F with the trampoline's first argument  *)
(* and returns void, registers newName once in "#rs_export_func", and the  *)
(* call and the return agree with F's parameter count and the declared     *)
(* return type.  The code always passes one argument and returns void.     *)
(***************************************************************************)
InvokeNameOf(source, slot) == Sources[source].funcName[slot + 1]

InvokeResolved ==
    /\ Renamed
    /\ Sources[lastCall.source].extractOk
    /\ InvokeNameOf(lastCall.source, lastCall.slot) \in DOMAIN pre.functions

C9_TrampolineMatchesInvoke ==
    InvokeResolved =>
        LET Fname == InvokeNameOf(lastCall.source, lastCall.slot)
            F == pre.functions[Fname]
        IN  /\ lastCall.result = "true"
            /\ lastCall.name \in DOMAIN functions
            /\ exportFuncs = Append(pre.exportFuncs, lastCall.name)
            /\ LET f == functions[lastCall.name]
               IN  /\ f.params = F.params
                   /\ f.ret = F.ret
                   /\ Len(f.blocks) = 1
                   /\ Len(f.blocks[1]) = 2
                   /\ f.blocks[1][1].op = "call"
                   /\ f.blocks[1][1].callee = Fname
                   /\ f.blocks[1][1].args = <<Arg(1)>>
                   /\ f.blocks[1][2].op = "retvoid"
                   \* consistency of the call and of the return
                   /\ Len(f.blocks[1][1].args) = Len(F.params)
                   /\ f.ret = "void"

(***************************************************************************)
(* C10.  When the source's metadata cannot be extracted, or the exported   *)
(* function of the slot is not in the module, renameInvoke returns false   *)
(* and leaves the module's functions and "#rs_export_func" as they were.   *)
(* The code never tests the pointer getInvokeFunction returns, and has no  *)
(* return other than true.                                                 *)
(***************************************************************************)
C10_RenameSignalsFailure ==
    (Renamed /\ ~InvokeResolved) =>
        /\ lastCall.result = "false"
        /\ functions = pre.functions
        /\ exportFuncs = pre.exportFuncs

====
